---- MODULE Spec2Model ----
(***************************************************************************)
(* Sparse conditional constant propagation over SSA, as implemented by     *)
(* src/cmd/compile/internal/ssa/sccp.go.                                   *)
(*                                                                         *)
(* Values and blocks are identified by their position in the function's    *)
(* arenas (Values, Blocks); 0 is the nil pointer.  Go slices are 0-based,  *)
(* TLA+ sequences 1-based: an index taken from the program (Edge.i, a      *)
(* branch number, an AuxInt used as index) is kept 0-based and 1 is added  *)
(* where it subscripts a sequence.                                         *)
(*                                                                         *)
(* Of the opcode families that visitValue folds, the 8-bit integer members *)
(* are modelled (Add8, Div8, Mod8, Eq8, Less8) with their int8 arithmetic; *)
(* OpArg stands for the opcodes of visitValue's default case.              *)
(***************************************************************************)
EXTENDS Integers, Sequences, FiniteSets, TLC

\* ------------------------------------------------------------------ bounds
\* largest literal of the input functions
MaxLit == 2
\* arena size at which the solver loop is cut off (never reached, see CapNotReached)
MaxValues == 40

\* ------------------------------------------------------------- the lattice
nil == 0
top == 0
constant == 1
bottom == 2

Entry == 1

Lattice(tg, v) == [tag |-> tg, val |-> v]

Put(m, k, x) == [y \in (DOMAIN m) \cup {k} |-> IF y = k THEN x ELSE m[y]]

isVisited(visited, e) == e \in visited

getLatticeCell(cells, val) ==
    IF val \in DOMAIN cells THEN cells[val] ELSE Lattice(top, nil)

\* isConst with one opcode too many in its list
isConstOp_AndArg(op) == op \in {"OpConst8", "OpConstBool", "OpArg"}

isConstOp(op) == op \in {"OpConst8", "OpConstBool"}

isDivOp(op) == op \in {"OpDiv8", "OpMod8"}

\* isDivByZero(op, divisor), divisor given by its AuxInt
isDivByZero_OnlyDiv(op, divisorAuxInt) ==
    op = "OpDiv8" /\ divisorAuxInt = 0

isDivByZero(op, divisorAuxInt) ==
    isDivOp(op) /\ divisorAuxInt = 0

\* meet without the comparison of the two constant nodes
RECURSIVE meetFrom_FirstWins(_, _, _)
meetFrom_FirstWins(arr, i, lt) ==
    IF i > Len(arr) THEN lt
    ELSE IF arr[i].tag = bottom THEN Lattice(bottom, nil)
    ELSE IF arr[i].tag = constant /\ lt.tag = top
         THEN meetFrom_FirstWins(arr, i + 1, Lattice(constant, arr[i].val))
    ELSE meetFrom_FirstWins(arr, i + 1, lt)

RECURSIVE meetFrom(_, _, _)
meetFrom(arr, i, lt) ==
    IF i > Len(arr) THEN lt
    ELSE IF arr[i].tag = bottom THEN Lattice(bottom, nil)
    ELSE IF arr[i].tag = constant
         THEN IF lt.tag = top THEN meetFrom(arr, i + 1, Lattice(constant, arr[i].val))
              ELSE IF lt.val # arr[i].val THEN Lattice(bottom, nil)
              ELSE meetFrom(arr, i + 1, lt)
    ELSE meetFrom(arr, i + 1, lt)

meet(arr) == meetFrom(arr, 1, Lattice(top, nil))

\* ---------------------------------------------------- int8 constant folding
Wrap8(n) == ((n + 128) % 256) - 128

Abs(n) == IF n < 0 THEN 0 - n ELSE n

\* Go's integer division truncates toward zero
TruncDiv(c, d) ==
    IF (c < 0) = (d < 0) THEN Abs(c) \div Abs(d) ELSE 0 - (Abs(c) \div Abs(d))

TruncMod(c, d) == c - d * TruncDiv(c, d)

BoolAux(b) == IF b THEN 1 ELSE 0

\* the fold rules of the generic rewriter for two constant arguments:
\* [matched, Op, AuxInt] for opcode op applied to the values a and b
FoldRule(op, a, b) ==
    LET no == [matched |-> FALSE, Op |-> op, AuxInt |-> 0]
        c == a.AuxInt
        d == b.AuxInt
        both8 == a.Op = "OpConst8" /\ b.Op = "OpConst8"
        yes(o, x) == [matched |-> TRUE, Op |-> o, AuxInt |-> x]
    IN  IF ~both8 THEN no
        ELSE IF op = "OpAdd8" THEN yes("OpConst8", Wrap8(c + d))
        ELSE IF op = "OpDiv8" THEN IF d # 0 THEN yes("OpConst8", Wrap8(TruncDiv(c, d))) ELSE no
        ELSE IF op = "OpMod8" THEN IF d # 0 THEN yes("OpConst8", Wrap8(TruncMod(c, d))) ELSE no
        ELSE IF op = "OpEq8" THEN yes("OpConstBool", BoolAux(c = d))
        ELSE IF op = "OpLess8" THEN yes("OpConstBool", BoolAux(c < d))
        ELSE no


\* ------------------------------------------------------------------ the IR
VARIABLES
    Values,        \* f's value arena: [Op, Args, Block, AuxInt, Uses]
    Blocks,        \* f.Blocks: [Kind, Succs, Preds, Values, Controls, Likely]
    edges,         \* worklist.edges
    uses,          \* worklist.uses
    visited,       \* worklist.visited
    latticeCells,  \* worklist.latticeCells
    defUse,        \* worklist.defUse
    defBlock,      \* worklist.defBlock
    pending,       \* keys of latticeCells that replaceConst's range has not yielded yet
    orig,          \* the function as it was handed to the pass
    hist,          \* history: the set of evaluations visitValue has made
    taken,         \* history: what the last iteration of the solver loop took
    run,           \* the number of the pass's run over the function
    meetArg,       \* the slice a caller hands to meet
    meetRes,       \* what meet returned to that caller
    pc             \* position in sccp

vars == <<Values, Blocks, edges, uses, visited, latticeCells, defUse, defBlock,
          pending, orig, hist, taken, run, meetArg, meetRes, pc>>

Lookup(m, k) == IF k \in DOMAIN m THEN m[k] ELSE <<>>

\* F(e), with e evaluated once however often F uses its argument
Once(F(_), e) == CHOOSE r \in {F(x) : x \in {e}} : TRUE

Edge(b, i) == [b |-> b, i |-> i]

\* Value.resetArgs: drop the arguments and their use counts
RECURSIVE decUses(_, _, _)
decUses(vals, args, i) ==
    IF i > Len(args) THEN vals
    ELSE decUses([vals EXCEPT ![args[i]].Uses = @ - 1], args, i + 1)

\* Value.reset(op): new opcode, no arguments, AuxInt cleared
reset(vals, id, op) ==
    [decUses(vals, vals[id].Args, 1) EXCEPT ![id].Op = op, ![id].Args = <<>>, ![id].AuxInt = 0]

\* Func.newValue(op, typ, f.Entry, pos): a fresh value at the end of the entry block
newValue(s, op) ==
    LET id == Len(s.Values) + 1
    IN  [s EXCEPT !.Values = Append(@, [Op |-> op, Args |-> <<>>, Block |-> Entry,
                                        AuxInt |-> 0, Uses |-> 0]),
                  !.Blocks = [@ EXCEPT ![Entry].Values = Append(@, id)]]

RECURSIVE incUses(_, _, _)
incUses(vals, args, i) ==
    IF i > Len(args) THEN vals
    ELSE incUses([vals EXCEPT ![args[i]].Uses = @ + 1], args, i + 1)

\* Value.AddArgs
AddArgs(vals, id, args) ==
    incUses([vals EXCEPT ![id].Args = @ \o args], args, 1)

\* rewriteValuegeneric applied to a two-argument value: [Values, matched]
rewriteValuegeneric(vals, id) ==
    LET v == vals[id]
        r == FoldRule(v.Op, vals[v.Args[1]], vals[v.Args[2]])
    IN  IF r.matched
        THEN [Values |-> [reset(vals, id, r.Op) EXCEPT ![id].AuxInt = r.AuxInt], matched |-> TRUE]
        ELSE [Values |-> vals, matched |-> FALSE]

\* the generic rules applied to val itself instead of a fresh value
computeConstValue_InPlace(s, val, a1, a2) ==
    Once(LAMBDA rw : [s |-> [s EXCEPT !.Values = rw.Values], constValue |-> val,
                      matched |-> rw.matched],
         rewriteValuegeneric(s.Values, val))

\* computeConstValue(f, val, a1, a2): [s, constValue, matched]
computeConstValue(s, val, a1, a2) ==
    LET id == Len(s.Values) + 1
        rewritten(s1) ==
            Once(LAMBDA rw :
                    [s |-> [s1 EXCEPT !.Values = rw.Values,
                                      !.fatal = @ \/ (rw.matched /\ ~isConstOp(rw.Values[id].Op))],
                     constValue |-> id, matched |-> rw.matched],
                 rewriteValuegeneric(AddArgs(s1.Values, id, <<a1, a2>>), id))
    IN  Once(rewritten, newValue(s, s.Values[val].Op))

\* --------------------------------------------------------------- the solver
\* the switch of worklist.propagate taking AuxInt itself as the branch of an If
propagateIn_SameBranch(s, block) ==
    LET b == s.Blocks[block]
        all == [i \in 1..Len(b.Succs) |-> <<block, b.Succs[i].b>>]
        condLattice == getLatticeCell(s.latticeCells, b.Controls[1])
        branch == s.Values[condLattice.val].AuxInt
    IN  IF b.Kind \in {"BlockExit", "BlockRet", "BlockRetJmp", "BlockInvalid"} THEN s
        ELSE IF b.Kind = "BlockDefer" THEN [s EXCEPT !.edges = @ \o all]
        ELSE IF b.Kind \in {"BlockFirst", "BlockPlain"}
             THEN [s EXCEPT !.edges = Append(@, <<block, b.Succs[1].b>>)]
        ELSE IF b.Kind \in {"BlockIf", "BlockJumpTable"}
             THEN IF condLattice.tag = bottom THEN [s EXCEPT !.edges = @ \o all]
                  ELSE IF condLattice.tag = constant
                       THEN [s EXCEPT !.edges = Append(@, <<block, b.Succs[branch + 1].b>>)]
                  ELSE s
        ELSE [s EXCEPT !.fatal = TRUE]

\* the switch of worklist.propagate
propagateIn(s, block) ==
    LET b == s.Blocks[block]
        all == [i \in 1..Len(b.Succs) |-> <<block, b.Succs[i].b>>]
        condLattice == getLatticeCell(s.latticeCells, b.Controls[1])
        branch == IF b.Kind = "BlockIf" THEN 1 - s.Values[condLattice.val].AuxInt
                  ELSE s.Values[condLattice.val].AuxInt
    IN  IF b.Kind \in {"BlockExit", "BlockRet", "BlockRetJmp", "BlockInvalid"} THEN s
        ELSE IF b.Kind = "BlockDefer" THEN [s EXCEPT !.edges = @ \o all]
        ELSE IF b.Kind \in {"BlockFirst", "BlockPlain"}
             THEN [s EXCEPT !.edges = Append(@, <<block, b.Succs[1].b>>)]
        ELSE IF b.Kind \in {"BlockIf", "BlockJumpTable"}
             THEN IF condLattice.tag = bottom THEN [s EXCEPT !.edges = @ \o all]
                  ELSE IF condLattice.tag = constant
                       THEN [s EXCEPT !.edges = Append(@, <<block, b.Succs[branch + 1].b>>)]
                  ELSE s
        ELSE [s EXCEPT !.fatal = TRUE]

\* worklist.propagate
propagate(s, block) == Once(LAMBDA x : propagateIn(x, block), s)

RECURSIVE propagateAll(_, _, _)
propagateAll(s, blocks, i) ==
    IF i > Len(blocks) THEN s
    ELSE propagateAll(propagate(s, blocks[i]), blocks, i + 1)

addUses_NoWake(s, val) ==
    propagateAll(s, Lookup(defBlock, val), 1)

\* addUses without the propagation of the blocks that val controls
addUses_NoBlocks(s, val) ==
    [s EXCEPT !.uses = @ \o SelectSeq(Lookup(defUse, val), LAMBDA use : use # val)]

\* worklist.addUses
addUses(s, val) ==
    LET us == SelectSeq(Lookup(defUse, val), LAMBDA use : use # val)
    IN  propagateAll([s EXCEPT !.uses = @ \o us], Lookup(defBlock, val), 1)

visitPhi_FirstArg(s, val) ==
    LET v == s.Values[val]
    IN  [s EXCEPT !.latticeCells = Put(@, val, getLatticeCell(s.latticeCells, v.Args[1]))]

visitPhi_AllArgs(s, val) ==
    LET v == s.Values[val]
        argLattice == [k \in 1..Len(v.Args) |-> getLatticeCell(s.latticeCells, v.Args[k])]
    IN  [s EXCEPT !.latticeCells = Put(@, val, meet(argLattice))]

\* worklist.visitPhi
visitPhi(s, val) ==
    LET v == s.Values[val]
        preds == s.Blocks[v.Block].Preds
        idx == SelectSeq([i \in 1..Len(v.Args) |-> i],
                         LAMBDA i : isVisited(s.visited, <<preds[i].b, v.Block>>))
        argLattice == [k \in 1..Len(idx) |-> getLatticeCell(s.latticeCells, v.Args[idx[k]])]
    IN  [s EXCEPT !.latticeCells = Put(@, val, meet(argLattice))]

SupportedBinary == {"OpAdd8", "OpDiv8", "OpMod8", "OpEq8", "OpLess8"}

\* the switch of visitValue (sccp.go 252-305)
visitBody(s, val) ==
    LET v == s.Values[val]
        worstLt == Lattice(bottom, nil)
        lt1 == getLatticeCell(s.latticeCells, v.Args[1])
        lt2 == getLatticeCell(s.latticeCells, v.Args[2])
        install(cv) ==
            IF cv.matched
            THEN [cv.s EXCEPT !.latticeCells = Put(@, val, Lattice(constant, cv.constValue))]
            ELSE [cv.s EXCEPT !.latticeCells = Put(@, val, worstLt)]
    IN  IF isConstOp(v.Op) THEN [s EXCEPT !.latticeCells = Put(@, val, Lattice(constant, val))]
        ELSE IF v.Op = "OpCopy"
             THEN [s EXCEPT !.latticeCells = Put(@, val, getLatticeCell(s.latticeCells, v.Args[1]))]
        ELSE IF v.Op = "OpPhi" THEN visitPhi(s, val)
        ELSE IF v.Op \in SupportedBinary
             THEN IF lt1.tag # constant \/ lt2.tag # constant
                     \/ isDivByZero(v.Op, s.Values[lt2.val].AuxInt)
                  THEN [s EXCEPT !.latticeCells = Put(@, val, worstLt)]
                  ELSE Once(install, computeConstValue(s, val, lt1.val, lt2.val))
        ELSE [s EXCEPT !.latticeCells = Put(@, val, worstLt)]

cellChanged_Always(oldLt, newLt) == TRUE

\* the wake-up of the uses only on a lowering of the cell
cellChanged_Lowered(oldLt, newLt) == newLt.tag > oldLt.tag

\* the condition of sccp.go 247
cellChanged(oldLt, newLt) == newLt.tag # oldLt.tag \/ newLt.val # oldLt.val

\* worklist.visitValue: the switch, then the deferred wake-up of the uses
\* the deferred function of visitValue (sccp.go 237-250), s1 being the state
\* the switch has left
visitDeferred(s, s1, val) ==
    LET v == s.Values[val]
        oldLt == getLatticeCell(s.latticeCells, val)
        newLt == getLatticeCell(s1.latticeCells, val)
        lt2 == getLatticeCell(s.latticeCells, v.Args[2])
        rec == [val |-> val, old |-> oldLt, new |-> newLt,
                probe |-> Len(s1.Values) > Len(s.Values),
                divz |-> isDivOp(v.Op) /\ lt2.tag = constant /\ s.Values[lt2.val].AuxInt = 0]
        s2 == [s1 EXCEPT !.hist = @ \cup {rec}]
    IN  IF cellChanged(oldLt, newLt) THEN addUses(s2, val) ELSE s2

visitValue(s, val) ==
    Once(LAMBDA x : Once(LAMBDA x1 : visitDeferred(x, x1, val), visitBody(x, val)), s)


\* ------------------------------------------------------- input functions
\* A function is described by its blocks (kind, successor blocks, control
\* values, order of the values in the block) and its values (opcode,
\* arguments, block, AuxInt); predecessor lists, the reverse indexes of the
\* edges and the use counts are derived as the IR builder maintains them.
B(kind, succs, ctrls, vals) == [Kind |-> kind, Succs |-> succs, Controls |-> ctrls, Values |-> vals]

V(op, args, blk, aux) == [Op |-> op, Args |-> args, Block |-> blk, AuxInt |-> aux]

RECURSIVE AllEdges(_, _)
AllEdges(d, b) ==
    IF b > Len(d.blocks) THEN <<>>
    ELSE [i \in 1..Len(d.blocks[b].Succs) |-> <<b, i - 1>>] \o AllEdges(d, b + 1)

PredPairs(d, c) ==
    SelectSeq(AllEdges(d, 1), LAMBDA p : d.blocks[p[1]].Succs[p[2] + 1] = c)

IndexOf(seq, x) == CHOOSE j \in 1..Len(seq) : seq[j] = x

Occurrences(seq, x) == Cardinality({i \in 1..Len(seq) : seq[i] = x})

RECURSIVE SumOver(_, _, _)
SumOver(seqs, x, i) ==
    IF i > Len(seqs) THEN 0 ELSE Occurrences(seqs[i], x) + SumOver(seqs, x, i + 1)

UseCount(d, x) ==
    SumOver([i \in 1..Len(d.values) |-> d.values[i].Args], x, 1)
    + SumOver([b \in 1..Len(d.blocks) |-> d.blocks[b].Controls], x, 1)

BuildValues(d) ==
    [x \in 1..Len(d.values) |->
        [Op |-> d.values[x].Op, Args |-> d.values[x].Args, Block |-> d.values[x].Block,
         AuxInt |-> d.values[x].AuxInt, Uses |-> UseCount(d, x)]]

BuildBlocks(d) ==
    [b \in 1..Len(d.blocks) |->
        [Kind |-> d.blocks[b].Kind,
         Succs |-> [i \in 1..Len(d.blocks[b].Succs) |->
                      Edge(d.blocks[b].Succs[i],
                           IndexOf(PredPairs(d, d.blocks[b].Succs[i]), <<b, i - 1>>) - 1)],
         Preds |-> [j \in 1..Len(PredPairs(d, b)) |->
                      Edge(PredPairs(d, b)[j][1], PredPairs(d, b)[j][2])],
         Values |-> d.blocks[b].Values,
         Controls |-> d.blocks[b].Controls,
         Likely |-> "BranchUnknown"]]

Lits == 0..MaxLit

IntOps == {"OpAdd8", "OpDiv8", "OpMod8"}

CmpOps == {"OpEq8", "OpLess8"}

\* Straight-line code (scenarios S1, S5, S6): entry -> b2 -> b3(ret).
\*   v1 = Const8 a; v2 = Const8 b; v3 = op v1 v2; v4 = Copy v3; v5 = Div8 v1 v4; v6 = Arg
\* in any of three orders of b2's values; b3 returns v6.
StraightOrders == {<<1, 2, 3, 4, 5>>, <<3, 1, 2, 4, 5>>, <<5, 4, 3, 2, 1>>}

Straight(op, a, b, ord) ==
    [blocks |-> << B("BlockPlain", <<2>>, <<>>, <<6>>),
                   B("BlockPlain", <<3>>, <<>>, ord),
                   B("BlockRet", <<>>, <<6>>, <<>>) >>,
     values |-> << V("OpConst8", <<>>, 2, a), V("OpConst8", <<>>, 2, b),
                   V(op, <<1, 2>>, 2, 0), V("OpCopy", <<3>>, 2, 0),
                   V("OpDiv8", <<1, 4>>, 2, 0), V("OpArg", <<>>, 1, 0) >>]

\* A diamond (scenarios S2, S3): entry is If on v3 with successors b2 (then)
\* and b3 (else), both flowing to b4.
\*   entry: v1 = Const8 a; v2 = Const8 b; v3 = the condition
\*   else:  v4 = Add8 v1 v2
\*   join:  v5 = Phi(v1 from then, v4 from else); v6 = Add8 v5 v1
\* The condition is a literal ConstBool, a comparison of v1 and v2, or an Arg.
DiamondOrders == {<<1, 2, 3>>, <<3, 1, 2>>}

Diamond(cond, a, b, ord) ==
    [blocks |-> << B("BlockIf", <<2, 3>>, <<3>>, ord),
                   B("BlockPlain", <<4>>, <<>>, <<>>),
                   B("BlockPlain", <<4>>, <<>>, <<4>>),
                   B("BlockExit", <<>>, <<>>, <<5, 6>>) >>,
     values |-> << V("OpConst8", <<>>, 1, a), V("OpConst8", <<>>, 1, b),
                   cond,
                   V("OpAdd8", <<1, 2>>, 3, 0),
                   V("OpPhi", <<1, 4>>, 4, 0), V("OpAdd8", <<5, 1>>, 4, 0) >>]

Conds ==
    {V("OpConstBool", <<>>, 1, t) : t \in {0, 1}}
    \cup {V(op, <<1, 2>>, 1, 0) : op \in CmpOps}
    \cup {V("OpArg", <<>>, 1, 0)}

\* A loop (scenario S4): entry -> header b2; b2 is If on v5 with successors
\* b3 (body, back to b2) and b4 (exit).
\*   entry:  v1 = Const8 a; v2 = Const8 b
\*   header: v3 = Phi(v1 from entry, v4 from body); v5 = Less8 v3 v2
\*   body:   v4 = next, one of Add8 v3 v2, Copy v3 and, with the phi listing
\*           itself on the back edge, nothing
\*   exit:   v6 = Const8 1; v7 = Add8 v1 v6
LoopNexts == {"OpAdd8", "OpCopy", "self"}

Loop(next, a, b, ord) ==
    [blocks |-> << B("BlockPlain", <<2>>, <<>>, <<1, 2>>),
                   B("BlockIf", <<3, 4>>, <<5>>, ord),
                   B("BlockPlain", <<2>>, <<>>, <<4>>),
                   B("BlockRetJmp", <<>>, <<>>, <<6, 7>>) >>,
     values |-> << V("OpConst8", <<>>, 1, a), V("OpConst8", <<>>, 1, b),
                   V("OpPhi", IF next = "self" THEN <<1, 3>> ELSE <<1, 4>>, 2, 0),
                   IF next = "OpAdd8" THEN V("OpAdd8", <<3, 2>>, 3, 0)
                   ELSE IF next = "OpCopy" THEN V("OpCopy", <<3>>, 3, 0)
                   ELSE V("OpArg", <<>>, 3, 0),
                   V("OpLess8", <<3, 2>>, 2, 0),
                   V("OpConst8", <<>>, 4, 1), V("OpAdd8", <<1, 6>>, 4, 0) >>]

LoopOrders == {<<3, 5>>, <<5, 3>>}

\* Nested branches: entry is If on v3 with successors b2 and b3; b2 is If on
\* v4, a value of the entry block, with successors b4 and b5; b3, b4 -> b5.
\*   entry: v1 = Const8 a; v2 = Const8 b; v3 = cond; v4 = cmp v1 v2 (or Arg)
\*   b4:    v5 = Mod8 v2 v1
\*   b5:    v6 = Phi(v1 from b2, v2 from b3, v5 from b4)
Nested(cond, inner, a, b) ==
    [blocks |-> << B("BlockIf", <<2, 3>>, <<3>>, <<1, 2, 3, 4>>),
                   B("BlockIf", <<4, 5>>, <<4>>, <<>>),
                   B("BlockPlain", <<5>>, <<>>, <<>>),
                   B("BlockPlain", <<5>>, <<>>, <<5>>),
                   B("BlockInvalid", <<>>, <<>>, <<6>>) >>,
     values |-> << V("OpConst8", <<>>, 1, a), V("OpConst8", <<>>, 1, b),
                   cond,
                   IF inner = "OpArg" THEN V("OpArg", <<>>, 1, 0) ELSE V(inner, <<1, 2>>, 1, 0),
                   V("OpMod8", <<2, 1>>, 4, 0),
                   V("OpPhi", <<1, 2, 5>>, 5, 0) >>]

\* Multi-way blocks: entry is First with successors b2, b6; b2 is Defer with
\* successors b3, b6; b3 is JumpTable on v3 with successors b4, b5, b6;
\* b4, b5 -> b6.
\*   entry: v1 = Const8 a; v2 = Const8 b; v3 = idx, one of Mod8 v1 v2, Copy v1, Arg
\*   b6:    v4 = Phi(v1 from entry, v2 from b2, v1 from b3, v2 from b4, v3 from b5)
MultiIdx == {"OpMod8", "OpCopy", "OpArg"}

Multi(idx, a, b) ==
    [blocks |-> << B("BlockFirst", <<2, 6>>, <<>>, <<1, 2, 3>>),
                   B("BlockDefer", <<3, 6>>, <<>>, <<>>),
                   B("BlockJumpTable", <<4, 5, 6>>, <<3>>, <<>>),
                   B("BlockPlain", <<6>>, <<>>, <<>>),
                   B("BlockPlain", <<6>>, <<>>, <<>>),
                   B("BlockRet", <<>>, <<>>, <<4>>) >>,
     values |-> << V("OpConst8", <<>>, 1, a), V("OpConst8", <<>>, 1, b),
                   IF idx = "OpMod8" THEN V("OpMod8", <<1, 2>>, 1, 0)
                   ELSE IF idx = "OpCopy" THEN V("OpCopy", <<1>>, 1, 0)
                   ELSE V("OpArg", <<>>, 1, 0),
                   V("OpPhi", <<1, 2, 1, 2, 3>>, 6, 0) >>]

\* The diamond with its condition behind a copy that precedes it in the
\* entry block, so that the block is propagated while its control is Top:
\*   entry: v1 = Const8 a; v2 = Const8 b; v3 = Copy v7; v7 = the condition
Late(cond, a, b) ==
    [blocks |-> << B("BlockIf", <<2, 3>>, <<3>>, <<1, 2, 3, 7>>),
                   B("BlockPlain", <<4>>, <<>>, <<>>),
                   B("BlockPlain", <<4>>, <<>>, <<4>>),
                   B("BlockExit", <<>>, <<>>, <<5, 6>>) >>,
     values |-> << V("OpConst8", <<>>, 1, a), V("OpConst8", <<>>, 1, b),
                   V("OpCopy", <<7>>, 1, 0),
                   V("OpAdd8", <<1, 2>>, 3, 0),
                   V("OpPhi", <<1, 4>>, 4, 0), V("OpAdd8", <<5, 1>>, 4, 0),
                   cond >>]

\* The diamond without any literal: v1 and v2 are arguments of the function,
\*   entry: v1 = Arg; v2 = Arg; v3 = cmp v1 v2 (or Arg)
\*   else:  v4 = op v1 v2 (or Copy v1)
\*   join:  v5 = Phi(v1 from then, v4 from else); v6 = Add8 v5 v1
ArgDiamond(cmp, op, ord) ==
    [blocks |-> << B("BlockIf", <<2, 3>>, <<3>>, ord),
                   B("BlockPlain", <<4>>, <<>>, <<>>),
                   B("BlockPlain", <<4>>, <<>>, <<4>>),
                   B("BlockExit", <<>>, <<>>, <<5, 6>>) >>,
     values |-> << V("OpArg", <<>>, 1, 0), V("OpArg", <<>>, 1, 0),
                   IF cmp = "OpArg" THEN V("OpArg", <<>>, 1, 0) ELSE V(cmp, <<1, 2>>, 1, 0),
                   IF op = "OpCopy" THEN V("OpCopy", <<1>>, 3, 0) ELSE V(op, <<1, 2>>, 3, 0),
                   V("OpPhi", <<1, 4>>, 4, 0), V("OpAdd8", <<5, 1>>, 4, 0) >>]

Funcs ==
    {Straight(op, a, b, ord) : op \in IntOps, a \in Lits, b \in Lits, ord \in StraightOrders}
    \cup {Diamond(c, a, b, ord) : c \in Conds, a \in Lits, b \in Lits, ord \in DiamondOrders}
    \cup {Loop(n, a, b, ord) : n \in LoopNexts, a \in Lits, b \in Lits, ord \in LoopOrders}
    \cup {Nested(c, i, a, b) : c \in Conds, i \in CmpOps \cup {"OpArg"}, a \in Lits, b \in Lits}
    \cup {Multi(i, a, b) : i \in MultiIdx, a \in {x \in Lits : x <= 2}, b \in Lits}
    \cup {Late(c, a, b) : c \in Conds, a \in Lits, b \in Lits}
    \cup {ArgDiamond(c, op, ord) : c \in CmpOps \cup {"OpArg"}, op \in IntOps \cup {"OpCopy"},
                                   ord \in DiamondOrders}


\* ------------------------------------------------------------ buildDefUses
RECURSIVE Concat(_)
Concat(ss) == IF ss = <<>> THEN <<>> ELSE Head(ss) \o Concat(Tail(ss))

\* the (definition, user) pairs in the order in which buildDefUses meets them
ArgPairs(vals, blocks) ==
    LET order == Concat([b \in 1..Len(blocks) |-> blocks[b].Values])
    IN  Concat([k \in 1..Len(order) |->
                  [i \in 1..Len(vals[order[k]].Args) |-> <<vals[order[k]].Args[i], order[k]>>]])

CtlPairs(blocks) ==
    Concat([b \in 1..Len(blocks) |->
              [i \in 1..Len(blocks[b].Controls) |-> <<blocks[b].Controls[i], b>>]])

\* the map built by appending p[2] to m[p[1]] for every pair p in order
GroupPairs(pairs) ==
    [k \in {pairs[i][1] : i \in 1..Len(pairs)} |->
        LET mine == SelectSeq(pairs, LAMBDA p : p[1] = k)
        IN  [i \in 1..Len(mine) |-> mine[i][2]]]

\* the verification loop of buildDefUses (sccp.go 115-121)
DefUseProblem(vals, du, db) ==
    \E key \in DOMAIN du : vals[key].Uses # Len(du[key]) + Len(Lookup(db, key))

\* --------------------------------------------------- IR edits of the rewriter
\* Block.removeEdge(i): drop successor i of b, the matching predecessor slot
\* of the destination and the matching argument of the destination's phis;
\* the last slot moves into the freed one.  [Blocks, Values]
removeSucc(blocks, b, i) ==
    LET n == Len(blocks[b].Succs) - 1
        e == blocks[b].Succs[n + 1]
        moved == IF i # n
                 THEN [blocks EXCEPT ![b].Succs[i + 1] = e]
                 ELSE blocks
        fixed == IF i # n
                 THEN [moved EXCEPT ![e.b].Preds[e.i + 1].i = i]
                 ELSE moved
    IN  [fixed EXCEPT ![b].Succs = SubSeq(@, 1, n)]

removePred(blocks, c, j) ==
    LET n == Len(blocks[c].Preds) - 1
        e == blocks[c].Preds[n + 1]
        moved == IF j # n
                 THEN [blocks EXCEPT ![c].Preds[j + 1] = e]
                 ELSE blocks
        fixed == IF j # n
                 THEN [moved EXCEPT ![e.b].Succs[e.i + 1].i = j]
                 ELSE moved
    IN  [fixed EXCEPT ![c].Preds = SubSeq(@, 1, n)]

removePhiArg(vals, phi, j) ==
    LET args == vals[phi].Args
        n == Len(args) - 1
        dropped == [vals EXCEPT ![args[j + 1]].Uses = @ - 1]
    IN  [dropped EXCEPT ![phi].Args = SubSeq([args EXCEPT ![j + 1] = args[n + 1]], 1, n)]

RECURSIVE removePhiArgs(_, _, _, _)
removePhiArgs(vals, cvalues, k, j) ==
    IF k > Len(cvalues) THEN vals
    ELSE IF vals[cvalues[k]].Op # "OpPhi" THEN removePhiArgs(vals, cvalues, k + 1, j)
    ELSE removePhiArgs(removePhiArg(vals, cvalues[k], j), cvalues, k + 1, j)

removeEdge(blocks, vals, b, i) ==
    LET e == blocks[b].Succs[i + 1]
        c == e.b
        j == e.i
        bl == removePred(removeSucc(blocks, b, i), c, j)
    IN  [Blocks |-> bl, Values |-> removePhiArgs(vals, bl[c].Values, 1, j)]

\* Block.ResetControls
ResetControls(blocks, vals, b) ==
    [Blocks |-> [blocks EXCEPT ![b].Controls = <<>>],
     Values |-> decUses(vals, blocks[b].Controls, 1)]

\* the rewiring with removeSucc called where removeEdge is meant
RECURSIVE rewire_SuccOnly(_, _, _, _)
rewire_SuccOnly(ir, ctrlBlock, k, aux) ==
    IF k > Len(ctrlBlock) THEN ir
    ELSE LET block == ctrlBlock[k]
             plain(bl) == [bl EXCEPT ![block].Kind = "BlockPlain",
                                     ![block].Likely = "BranchUnknown"]
             collapse(x) ==
                 Once(LAMBDA rc : [Blocks |-> rc.Blocks, Values |-> rc.Values,
                                   fatal |-> x.fatal],
                      ResetControls(plain(removeSucc(x.Blocks, block, aux)), x.Values, block))
             one(x) ==
                 IF x.Blocks[block].Kind = "BlockIf" THEN collapse(x)
                 ELSE IF x.Blocks[block].Kind = "BlockJumpTable" THEN x
                 ELSE [x EXCEPT !.fatal = TRUE]
         IN  rewire_SuccOnly(Once(one, ir), ctrlBlock, k + 1, aux)

\* the loop over t.defBlock[val] in replaceConst (sccp.go 374-389);
\* ir = [Blocks, Values, fatal], aux = lt.val.AuxInt
RECURSIVE rewire(_, _, _, _)
rewire(ir, ctrlBlock, k, aux) ==
    IF k > Len(ctrlBlock) THEN ir
    ELSE LET block == ctrlBlock[k]
             plain(re) == [re.Blocks EXCEPT ![block].Kind = "BlockPlain",
                                            ![block].Likely = "BranchUnknown"]
             collapse(x) ==
                 Once(LAMBDA re :
                         Once(LAMBDA rc : [Blocks |-> rc.Blocks, Values |-> rc.Values,
                                           fatal |-> x.fatal],
                              ResetControls(plain(re), re.Values, block)),
                      removeEdge(x.Blocks, x.Values, block, aux))
             one(x) ==
                 IF x.Blocks[block].Kind = "BlockIf" THEN collapse(x)
                 ELSE IF x.Blocks[block].Kind = "BlockJumpTable" THEN x
                 ELSE [x EXCEPT !.fatal = TRUE]
         IN  rewire(Once(one, ir), ctrlBlock, k + 1, aux)

replaceOne_NoAux(vals, blocks, val) ==
    LET lt == latticeCells[val]
        k == vals[lt.val]
    IN  IF lt.tag = constant /\ ~isConstOp(vals[val].Op)
        THEN rewire([Blocks |-> blocks, Values |-> reset(vals, val, k.Op), fatal |-> FALSE],
                    Lookup(defBlock, val), 1, k.AuxInt)
        ELSE [Blocks |-> blocks, Values |-> vals, fatal |-> FALSE]

\* one iteration of the loop of replaceConst for the map entry of val
replaceOne(vals, blocks, val) ==
    LET lt == latticeCells[val]
        k == vals[lt.val]
        rs == [reset(vals, val, k.Op) EXCEPT ![val].AuxInt = k.AuxInt]
    IN  IF lt.tag = constant /\ ~isConstOp(vals[val].Op)
        THEN rewire([Blocks |-> blocks, Values |-> rs, fatal |-> FALSE],
                    Lookup(defBlock, val), 1, k.AuxInt)
        ELSE [Blocks |-> blocks, Values |-> vals, fatal |-> FALSE]


\* ------------------------------------------------------------- the actions
\* the state when sccp is entered with the function (vals, blks)
InitOn(vals, blks) ==
    /\ Values = vals
    /\ Blocks = blks
    /\ orig = [Values |-> vals, Blocks |-> blks]
    /\ edges = <<>>
    /\ uses = <<>>
    /\ visited = {}
    /\ latticeCells = <<>>
    /\ defUse = <<>>
    /\ defBlock = <<>>
    /\ pending = {}
    /\ hist = {}
    /\ taken = "nothing"
    /\ run = 1
    /\ meetArg = <<>>
    /\ meetRes = Lattice(top, nil)
    /\ pc = "start"

Init == \E d \in Funcs : InitOn(BuildValues(d), BuildBlocks(d))

\* the solver's view of the state, with the edge or value just popped removed
Solver(es, us) ==
    [Values |-> Values, Blocks |-> Blocks, edges |-> es, uses |-> us, visited |-> visited,
     latticeCells |-> latticeCells, hist |-> hist, fatal |-> FALSE]

Install(s) ==
    /\ Values' = s.Values
    /\ Blocks' = s.Blocks
    /\ edges' = s.edges
    /\ uses' = s.uses
    /\ visited' = s.visited
    /\ latticeCells' = s.latticeCells
    /\ hist' = s.hist
    /\ pc' = IF s.fatal THEN "fatal" ELSE "solve"
    /\ UNCHANGED <<defUse, defBlock, pending, orig, run, meetArg, meetRes>>

\* sccp.go 396-404: the worklist is set up and buildDefUses runs
Start ==
    /\ pc = "start"
    /\ edges' = << <<Entry, Entry>> >>
    /\ defUse' = GroupPairs(ArgPairs(Values, Blocks))
    /\ defBlock' = GroupPairs(CtlPairs(Blocks))
    /\ pc' = IF DefUseProblem(Values, defUse', defBlock') THEN "fatal" ELSE "solve"
    /\ UNCHANGED <<Values, Blocks, uses, visited, latticeCells, pending, orig, hist, taken,
                   run, meetArg, meetRes>>

\* the loop over dest.Values of sccp.go 423-427
RECURSIVE visitAll(_, _, _, _)
visitAll(s, vals, i, destVisited) ==
    IF i > Len(vals) THEN s
    ELSE LET one(x) == IF x.Values[vals[i]].Op = "OpPhi" \/ ~destVisited
                       THEN visitValue(x, vals[i])
                       ELSE x
         IN  visitAll(Once(one, s), vals, i + 1, destVisited)

\* sccp.go 409-434: the edge branch of the loop, for the edge e just taken
\* from the worklist of s
edgeBranch(s0, e) ==
    LET dest == e[2]
        destVisited == \E visitedEdge \in s0.visited : visitedEdge[2] = dest
        s1 == [s0 EXCEPT !.visited = @ \cup {e}]
        s2 == visitAll(s1, s0.Blocks[dest].Values, 1, destVisited)
        s3 == IF ~destVisited THEN propagate(s2, dest) ELSE s2
    IN  IF ~isVisited(s0.visited, e) THEN s3 ELSE s0

\* sccp.go 408-434: one edge is taken from the worklist
ProcessEdge ==
    /\ pc = "solve"
    /\ Len(edges) > 0
    /\ Len(Values) < MaxValues
    /\ Install(edgeBranch(Solver(Tail(edges), uses), edges[1]))
    /\ taken' = "edge"

\* the value branch tested before the edge branch has emptied its worklist
ProcessUse_Eager ==
    /\ pc = "solve"
    /\ Len(uses) > 0
    /\ Len(Values) < MaxValues
    /\ Install(visitValue(Solver(edges, Tail(uses)), uses[1]))
    /\ taken' = "value"

\* sccp.go 435-440: one value is taken from the worklist
ProcessUse ==
    /\ pc = "solve"
    /\ Len(edges) = 0
    /\ Len(uses) > 0
    /\ Len(Values) < MaxValues
    /\ Install(visitValue(Solver(edges, Tail(uses)), uses[1]))
    /\ taken' = "value"

\* sccp.go 441-445: both worklists are empty, replaceConst starts its range
\* over latticeCells
BeginReplace ==
    /\ pc = "solve"
    /\ Len(edges) = 0
    /\ Len(uses) = 0
    /\ pending' = DOMAIN latticeCells
    /\ pc' = "replace"
    /\ UNCHANGED <<Values, Blocks, edges, uses, visited, latticeCells, defUse, defBlock,
                   orig, hist, taken, run, meetArg, meetRes>>

\* the entries of latticeCells that the range of replaceConst has not yielded
\* yet and on which its body acts (the condition of sccp.go 364); the cells
\* do not change any more and a value's opcode changes only when the body
\* acts on that value, so that the entries left out are skipped whenever the
\* range yields them
Acting == {val \in pending : latticeCells[val].tag = constant /\ ~isConstOp(Values[val].Op)}

\* sccp.go 363-391: the range goes on, in the map's order, to the next entry
\* on which the body acts
ReplaceStep ==
    /\ pc = "replace"
    /\ \E val \in Acting :
          LET r == replaceOne(Values, Blocks, val)
          IN  /\ Values' = r.Values
              /\ Blocks' = r.Blocks
              /\ pending' = pending \ {val}
              /\ pc' = IF r.fatal THEN "fatal" ELSE "replace"
    /\ UNCHANGED <<edges, uses, visited, latticeCells, defUse, defBlock, orig, hist, taken,
                   run, meetArg, meetRes>>

\* sccp.go 392, 445-451: the range yields the entries that are left, all
\* skipped; replaceConst and sccp return
Finish ==
    /\ pc = "replace"
    /\ Acting = {}
    /\ pending' = {}
    /\ pc' = "done"
    /\ UNCHANGED <<Values, Blocks, edges, uses, visited, latticeCells, defUse, defBlock,
                   orig, hist, taken, run, meetArg, meetRes>>

Next == Start \/ ProcessEdge \/ ProcessUse \/ BeginReplace \/ ReplaceStep \/ Finish

Spec == Init /\ [][Next]_vars

\* the pass is a single thread that runs to completion
FairSpec == Spec /\ WF_vars(Next)

\* the arena bound is never what stops the solver
CapNotReached == Len(Values) < MaxValues


\* ------------------------------------------------------------ meet alone
\* meet is a pure function of the slice it is given: a caller hands it any
\* slice of cells over two constant nodes, then hands it the same cells in
\* another order or with one of them repeated.
MaxArgs == 4

Nodes == {1, 2}

Cells == {Lattice(top, nil), Lattice(bottom, nil)} \cup {Lattice(constant, n) : n \in Nodes}

SeqsUpTo(S, n) == UNION {[1..k -> S] : k \in 0..n}

Frozen == UNCHANGED <<Values, Blocks, edges, uses, visited, latticeCells, defUse, defBlock,
                      pending, orig, hist, taken, run>>

MeetInit ==
    /\ meetArg \in SeqsUpTo(Cells, MaxArgs)
    /\ meetRes = Lattice(top, nil)
    /\ pc = "meet"
    /\ Values = <<>>
    /\ Blocks = <<>>
    /\ orig = [Values |-> <<>>, Blocks |-> <<>>]
    /\ edges = <<>>
    /\ uses = <<>>
    /\ visited = {}
    /\ latticeCells = <<>>
    /\ defUse = <<>>
    /\ defBlock = <<>>
    /\ pending = {}
    /\ hist = {}
    /\ taken = "nothing"
    /\ run = 1

\* sccp.go 162-181 called on the slice
MeetCall ==
    /\ pc = "meet"
    /\ meetRes' = meet(meetArg)
    /\ pc' = "met"
    /\ UNCHANGED meetArg
    /\ Frozen

\* the same call on the slice with two neighbours exchanged
MeetSwapped ==
    /\ pc = "met"
    /\ \E i \in 1..(Len(meetArg) - 1) :
          meetArg' = [meetArg EXCEPT ![i] = meetArg[i + 1], ![i + 1] = meetArg[i]]
    /\ meetRes' = meet(meetArg')
    /\ UNCHANGED pc
    /\ Frozen

\* the same call on the slice with one element once more
MeetRepeated ==
    /\ pc = "met"
    /\ Len(meetArg) < MaxArgs + 1
    /\ \E i \in 1..Len(meetArg) : meetArg' = Append(meetArg, meetArg[i])
    /\ meetRes' = meet(meetArg')
    /\ UNCHANGED pc
    /\ Frozen

MeetNext == MeetCall \/ MeetSwapped \/ MeetRepeated

MeetSpec == MeetInit /\ [][MeetNext]_vars


\* ------------------------------------------------------------ a second run
\* sccp is called again on the function the first call has left: a new
\* worklist is made (sccp.go 396-403); the function is the first run's result.
Rerun ==
    /\ pc = "done"
    /\ run = 1
    /\ run' = 2
    /\ orig' = [Values |-> Values, Blocks |-> Blocks]
    /\ edges' = <<>>
    /\ uses' = <<>>
    /\ visited' = {}
    /\ latticeCells' = <<>>
    /\ defUse' = <<>>
    /\ defBlock' = <<>>
    /\ pending' = {}
    /\ hist' = {}
    /\ taken' = "nothing"
    /\ pc' = "start"
    /\ UNCHANGED <<Values, Blocks, meetArg, meetRes>>

TwiceNext == Next \/ Rerun

TwiceSpec == Init /\ [][TwiceNext]_vars


\* ------------------------------------------------------ stale use counts
\* The pass is handed a function in which an earlier pass has left the use
\* count of one value too high by one.
StaleFuncs ==
    {Diamond(c, a, b, ord) : c \in Conds, a \in Lits, b \in Lits, ord \in DiamondOrders}

StaleInit ==
    \E d \in StaleFuncs :
        \E x \in 1..Len(d.values) :
            InitOn([BuildValues(d) EXCEPT ![x].Uses = @ + 1], BuildBlocks(d))

StaleSpec == StaleInit /\ [][Next]_vars




\* ------------------------------------------------- other worklist orders
\* The loop of sccp.go 407-442 with the worklists popped at any position
\* instead of at the front: edges are still taken before values.
RemoveAt(seq, i) == SubSeq(seq, 1, i - 1) \o SubSeq(seq, i + 1, Len(seq))

\* no history of the evaluations is kept under this specification
NoHist(s) == [s EXCEPT !.hist = {}]

TakeEdge ==
    /\ pc = "solve"
    /\ Len(edges) > 0
    /\ Len(Values) < MaxValues
    /\ \E i \in 1..Len(edges) : Install(NoHist(edgeBranch(Solver(RemoveAt(edges, i), uses), edges[i])))
    /\ taken' = "edge"

TakeUse ==
    /\ pc = "solve"
    /\ Len(edges) = 0
    /\ Len(uses) > 0
    /\ Len(Values) < MaxValues
    /\ \E i \in 1..Len(uses) :
          Install(NoHist(visitValue(Solver(edges, RemoveAt(uses, i)), uses[i])))
    /\ taken' = "value"

AnyOrderNext == Start \/ TakeEdge \/ TakeUse \/ BeginReplace

\* the part of the catalog on which every order is run: the number of orders
\* grows with the factorial of the worklists' lengths
OrderFuncs ==
    {Straight(op, a, b, ord) : op \in IntOps, a \in Lits, b \in Lits, ord \in StraightOrders}
    \cup {Loop(n, a, b, ord) : n \in LoopNexts, a \in Lits, b \in Lits, ord \in LoopOrders}
    \cup {Multi(i, a, b) : i \in MultiIdx, a \in {x \in Lits : x <= 2}, b \in Lits}
    \cup {Diamond(c, a, a, <<1, 2, 3>>) : c \in Conds, a \in Lits}
    \cup {Nested(c, i, 1, 0) : c \in Conds, i \in CmpOps \cup {"OpArg"}}

AnyOrderInit == \E d \in OrderFuncs : InitOn(BuildValues(d), BuildBlocks(d))

AnyOrderSpec == AnyOrderInit /\ [][AnyOrderNext]_vars

\* the loop of sccp.go 407-442 run to its end from s, front first
RECURSIVE solve(_)
solve(s) ==
    IF s.fatal \/ Len(s.Values) >= MaxValues THEN s
    ELSE IF Len(s.edges) > 0
         THEN solve(Once(LAMBDA x : edgeBranch([x EXCEPT !.edges = Tail(@)], x.edges[1]), s))
    ELSE IF Len(s.uses) > 0
         THEN solve(Once(LAMBDA x : visitValue([x EXCEPT !.uses = Tail(@)], x.uses[1]), s))
    ELSE s




\* ------------------------------------------------------------- properties
OrigValues == DOMAIN orig.Values

Cell(v) == getLatticeCell(latticeCells, v)

Solved == pc \in {"replace", "done"}

\* the blocks that have a visited incoming edge
VisitedBlocks == {e[2] : e \in visited}

RECURSIVE ReachFrom(_)
ReachFrom(S) ==
    LET T == S \cup {e[2] : e \in {x \in visited : x[1] \in S}}
    IN  IF T = S THEN S ELSE ReachFrom(T)

\* the blocks reachable from the entry block through visited edges
Reached == ReachFrom({Entry})

\* C1: the tag of a cell is never raised: every step leaves the tag of every
\* value's cell where it is or moves it down in Top > Const > Bottom.
C1_NeverRaised ==
    [][\A v \in DOMAIN latticeCells' :
          getLatticeCell(latticeCells', v).tag >= getLatticeCell(latticeCells, v).tag]_vars

\* C2: the cell of a value changes at most twice (a change being what
\* visitValue counts as one), and a supported binary operation evaluated
\* again on the same constant arguments is not counted as changed.
C2_AtMostTwoChanges ==
    /\ \A v \in OrigValues :
          Cardinality({r \in hist : r.val = v /\ cellChanged(r.old, r.new)}) <= 2
    /\ \A r \in hist :
          (r.old.tag = constant /\ r.new.tag = constant
             /\ Values[r.old.val].Op = Values[r.new.val].Op
             /\ Values[r.old.val].AuxInt = Values[r.new.val].AuxInt)
          => ~cellChanged(r.old, r.new)


\* a loop phi of the input: a phi with an argument that is an Add8 of the phi itself
LoopPhis ==
    {v \in OrigValues :
        /\ orig.Values[v].Op = "OpPhi"
        /\ \E i \in 1..Len(orig.Values[v].Args) :
              LET w == orig.Values[v].Args[i]
              IN  /\ orig.Values[w].Op = "OpAdd8"
                  /\ \E j \in 1..2 : orig.Values[w].Args[j] = v
                  /\ <<orig.Blocks[orig.Values[v].Block].Preds[i].b, orig.Values[v].Block>>
                        \in visited}

\* C3: the worklist loop terminates: a state in which the loop has been left,
\* with the edge queue and the value queue empty, is eventually reached.
C3_Terminates == <>(Solved /\ Len(edges) = 0 /\ Len(uses) = 0)

\* a loop whose phi is fed over a visited back edge has been solved
C3_Witness == pc = "done" /\ LoopPhis # {} /\ \A v \in LoopPhis : Cell(v).tag = bottom

\* C4: every visited edge other than the seed leaves a block that is reachable
\* from the entry block through visited edges.
C4_VisitedFromReachable ==
    \A e \in visited : e = <<Entry, Entry>> \/ e[1] \in Reached

\* C5: a value whose block has no visited incoming edge keeps the cell Top
\* during the run and is left alone by the rewriter.
C5_UnvisitedStaysTop ==
    \A v \in OrigValues :
        orig.Values[v].Block \notin VisitedBlocks
        => /\ Cell(v).tag = top
           /\ Values[v].Op = orig.Values[v].Op
           /\ Values[v].Args = orig.Values[v].Args


OrigOp(v) == orig.Values[v].Op

OrigArgs(v) == orig.Values[v].Args

OrigBlock(v) == orig.Values[v].Block

\* whether the predecessor edge of argument i of the phi v is marked visited
ArgEdgeVisited(v, i) ==
    <<orig.Blocks[OrigBlock(v)].Preds[i].b, OrigBlock(v)>> \in visited

\* the cells of the arguments of the phi v that come in over visited edges
VisitedArgCells(v) ==
    LET idx == SelectSeq([i \in 1..Len(OrigArgs(v)) |-> i], LAMBDA i : ArgEdgeVisited(v, i))
    IN  [k \in 1..Len(idx) |-> Cell(OrigArgs(v)[idx[k]])]

\* C6: when the solver has terminated, the cell of every phi is the meet of
\* the cells of exactly those arguments whose predecessor edge is visited.
C6_PhiIsMeet ==
    Solved => \A v \in OrigValues : OrigOp(v) = "OpPhi" => Cell(v) = meet(VisitedArgCells(v))

\* a phi keeps a constant although an argument on an unvisited edge has a
\* cell that would change the meet
C6_Witness ==
    /\ pc = "done"
    /\ \E v \in OrigValues :
          /\ OrigOp(v) = "OpPhi"
          /\ Cell(v).tag = constant
          /\ \E i \in 1..Len(OrigArgs(v)) :
                ~ArgEdgeVisited(v, i) /\ Cell(OrigArgs(v)[i]).tag # top

\* the cell that section 4.4 gives the non-phi value v for the current cells
\* of its arguments, as a predicate on the cell c
RuleHolds(v, c) ==
    LET lt1 == Cell(OrigArgs(v)[1])
        lt2 == Cell(OrigArgs(v)[2])
        r == FoldRule(OrigOp(v), Values[lt1.val], Values[lt2.val])
    IN  IF isConstOp(OrigOp(v)) THEN c = Lattice(constant, v)
        ELSE IF OrigOp(v) = "OpCopy" THEN c = Cell(OrigArgs(v)[1])
        ELSE IF OrigOp(v) \in SupportedBinary
             THEN IF lt1.tag # constant \/ lt2.tag # constant THEN c = Lattice(bottom, nil)
                  ELSE IF isDivOp(OrigOp(v)) /\ Values[lt2.val].AuxInt = 0
                       THEN c = Lattice(bottom, nil)
                  ELSE IF r.matched
                       THEN /\ c.tag = constant
                            /\ Values[c.val].Op = r.Op
                            /\ Values[c.val].AuxInt = r.AuxInt
                       ELSE c = Lattice(bottom, nil)
        ELSE c = Lattice(bottom, nil)

\* C7: when the solver has terminated, every non-phi value of a block with a
\* visited incoming edge has the cell that the rule of its opcode gives for
\* the current cells of its arguments.
C7_CellsClosed ==
    Solved => \A v \in OrigValues :
                 (OrigOp(v) # "OpPhi" /\ OrigBlock(v) \in VisitedBlocks) => RuleHolds(v, Cell(v))

\* a binary operation that was evaluated to Bottom before its arguments were
\* known ends with the constant its rule gives
C7_Witness ==
    /\ pc = "done"
    /\ \E v \in OrigValues :
          /\ OrigOp(v) \in SupportedBinary
          /\ OrigBlock(v) \in VisitedBlocks
          /\ Cell(v).tag = constant
          /\ \E r \in hist : r.val = v /\ r.new.tag = bottom

\* whether the control value c of an If block is constant after the pass, and
\* the literal it has
CtlConst(c) == isConstOp(OrigOp(c)) \/ Cell(c).tag = constant

CtlAux(c) == IF isConstOp(OrigOp(c)) THEN orig.Values[c].AuxInt ELSE Values[Cell(c).val].AuxInt

\* block b is Plain, without control, its only successor is what was its
\* successor number keep, and the edge to what was successor number dead is gone
Collapsed(b, keep, dead) ==
    /\ Blocks[b].Kind = "BlockPlain"
    /\ Blocks[b].Controls = <<>>
    /\ Len(Blocks[b].Succs) = 1
    /\ Blocks[b].Succs[1].b = orig.Blocks[b].Succs[keep + 1].b
    /\ \A j \in 1..Len(Blocks[orig.Blocks[b].Succs[dead + 1].b].Preds) :
          Blocks[orig.Blocks[b].Succs[dead + 1].b].Preds[j].b # b

\* C8: after the pass every If block whose control value is a constant, a
\* literal ConstBool or a value whose final cell is Const, is a Plain block
\* that keeps successor 0 for true and successor 1 for false.
C8_ConstIfCollapsed ==
    pc = "done" =>
        \A b \in DOMAIN orig.Blocks :
            (orig.Blocks[b].Kind = "BlockIf" /\ CtlConst(orig.Blocks[b].Controls[1]))
            => LET aux == CtlAux(orig.Blocks[b].Controls[1])
               IN  Collapsed(b, 1 - aux, aux)

\* the part of C8 about control values that are not literals
C8_NonLiteralCollapsed ==
    pc = "done" =>
        \A b \in DOMAIN orig.Blocks :
            (/\ orig.Blocks[b].Kind = "BlockIf"
             /\ ~isConstOp(OrigOp(orig.Blocks[b].Controls[1]))
             /\ Cell(orig.Blocks[b].Controls[1]).tag = constant)
            => LET aux == CtlAux(orig.Blocks[b].Controls[1])
               IN  Collapsed(b, 1 - aux, aux)

\* whether both arguments of the binary operation v are literals
LiteralArgs(v) == \A i \in 1..2 : isConstOp(OrigOp(OrigArgs(v)[i]))

Folded(v) == FoldRule(OrigOp(v), orig.Values[OrigArgs(v)[1]], orig.Values[OrigArgs(v)[2]])

\* whether the rewriter resets a control value of block b
ControlRewritten(b) ==
    \E i \in 1..Len(orig.Blocks[b].Controls) :
        LET c == orig.Blocks[b].Controls[i]
        IN  Cell(c).tag = constant /\ ~isConstOp(OrigOp(c))

\* C9: after the pass a value that was not a literal and whose cell is
\* Const(k) has k's opcode and AuxInt and no arguments and is still in its
\* block; a supported binary operation on two literals in a visited block has
\* become the literal of their fold; a block none of whose control values was
\* reset keeps its kind.
C9_ConstReplaced ==
    pc = "done" =>
        /\ \A v \in OrigValues :
              /\ (Cell(v).tag = constant /\ ~isConstOp(OrigOp(v)))
                 => /\ Values[v].Op = Values[Cell(v).val].Op
                    /\ Values[v].AuxInt = Values[Cell(v).val].AuxInt
                    /\ Values[v].Args = <<>>
                    /\ Values[v].Block = OrigBlock(v)
                    /\ Occurrences(Blocks[OrigBlock(v)].Values, v) = 1
              /\ (/\ OrigOp(v) \in SupportedBinary
                  /\ LiteralArgs(v)
                  /\ OrigBlock(v) \in VisitedBlocks
                  /\ Folded(v).matched)
                 => /\ Values[v].Op = Folded(v).Op
                    /\ Values[v].AuxInt = Folded(v).AuxInt
                    /\ Values[v].Args = <<>>
        /\ \A b \in DOMAIN orig.Blocks :
              ~ControlRewritten(b) => Blocks[b].Kind = orig.Blocks[b].Kind

\* an Add8 of two literals has become a Const8 with their non-zero sum
C9_Witness ==
    /\ pc = "done"
    /\ \E v \in OrigValues :
          /\ OrigOp(v) = "OpAdd8"
          /\ LiteralArgs(v)
          /\ Values[v].Op = "OpConst8"
          /\ Values[v].AuxInt = orig.Values[OrigArgs(v)[1]].AuxInt + orig.Values[OrigArgs(v)[2]].AuxInt
          /\ Values[v].AuxInt > 0

Meet2(x, y) ==
    IF x.tag = top THEN y
    ELSE IF y.tag = top THEN x
    ELSE IF x.tag = bottom \/ y.tag = bottom THEN Lattice(bottom, nil)
    ELSE IF x.val = y.val THEN x
    ELSE Lattice(bottom, nil)

RECURSIVE FoldLeft(_, _)
FoldLeft(cells, acc) ==
    IF cells = <<>> THEN acc ELSE FoldLeft(Tail(cells), Meet2(acc, Head(cells)))

Range(f) == {f[i] : i \in DOMAIN f}

ConstNodes(cells) == {c.val : c \in {x \in Range(cells) : x.tag = constant}}

MeetCases ==
    /\ meetRes = FoldLeft(meetArg, Lattice(top, nil))
    /\ Range(meetArg) \subseteq {Lattice(top, nil)} => meetRes = Lattice(top, nil)
    /\ Lattice(bottom, nil) \in Range(meetArg) => meetRes = Lattice(bottom, nil)
    /\ \A n \in Nodes :
          (ConstNodes(meetArg) = {n} /\ Lattice(bottom, nil) \notin Range(meetArg))
          => meetRes = Lattice(constant, n)
    /\ Cardinality(ConstNodes(meetArg)) > 1 => meetRes = Lattice(bottom, nil)

\* C11: what meet returns for a slice is the left fold of the binary meet
\* from Top (Top for the empty and the all-Top slice, Bottom as soon as one
\* cell is Bottom or two cells carry different constant nodes, the constant
\* when all constant cells carry one node), and calling it again on the same
\* cells in another order, or with one of them repeated, returns the same.
C11_MeetOrderFree ==
    /\ [](pc = "met" => MeetCases)
    /\ [][(pc = "met" /\ pc' = "met") => meetRes' = meetRes]_vars

C11_Witness ==
    /\ pc = "met"
    /\ Len(meetArg) = MaxArgs + 1
    /\ \E i, j \in 1..Len(meetArg) :
          i < j /\ meetArg[i].tag = top /\ meetArg[j].tag = constant /\ meetArg[1].tag = constant
    /\ meetRes.tag = constant

\* ---- C12
\* the solver's result on the function handed to the pass, worklists popped
\* at the front
FifoResult ==
    solve([Values |-> orig.Values, Blocks |-> orig.Blocks, edges |-> << <<Entry, Entry>> >>,
           uses |-> <<>>, visited |-> {}, latticeCells |-> <<>>, hist |-> {}, fatal |-> FALSE])

SolverDone == pc = "replace" /\ pending = DOMAIN latticeCells

SameValue(v, w) == v.Op = w.Op /\ v.AuxInt = w.AuxInt /\ v.Args = w.Args

SameBlock(b, c) ==
    b.Kind = c.Kind /\ b.Controls = c.Controls /\ b.Succs = c.Succs /\ b.Preds = c.Preds

\* C13: when the pass has run a second time, on the function its first run
\* produced, every value of that function has the opcode, the AuxInt and the
\* arguments and every block has the kind, the control values, the
\* successors and the predecessors that the first run left.
C13_SecondRunNoChange ==
    (run = 2 /\ pc = "done") =>
        /\ \A v \in DOMAIN orig.Values : SameValue(Values[v], orig.Values[v])
        /\ \A b \in DOMAIN orig.Blocks : SameBlock(Blocks[b], orig.Blocks[b])

\* ---- C14
\* the function handed to the pass has no value with a constant-literal opcode
NoLiterals == \A v \in DOMAIN orig.Values : orig.Values[v].Op \notin {"OpConst8", "OpConstBool"}

\* C14: on a function without any constant-literal opcode no cell is ever
\* Const, the evaluator is never called (no evaluation makes a probe, the
\* arena does not grow), and the values and the blocks stay as they were
\* handed to the pass.
C14_NoLiteralNoOp ==
    NoLiterals =>
        /\ \A v \in DOMAIN latticeCells : latticeCells[v].tag # constant
        /\ \A h \in hist : ~h.probe
        /\ Values = orig.Values
        /\ Blocks = orig.Blocks

C14_Witness ==
    /\ NoLiterals
    /\ pc = "done"
    /\ Cardinality(hist) >= Len(orig.Values)
    /\ Cardinality(visited) > Len(orig.Blocks)

\* ---- C15
IsPhi(v) == Values[v].Op = "OpPhi"

\* successor i of b is slot e.i of e.b's predecessors, and the other way round
EdgesConsistent ==
    \A b \in DOMAIN Blocks :
        /\ \A i \in 1..Len(Blocks[b].Succs) :
              LET e == Blocks[b].Succs[i]
              IN  /\ e.i + 1 \in 1..Len(Blocks[e.b].Preds)
                  /\ Blocks[e.b].Preds[e.i + 1] = Edge(b, i - 1)
        /\ \A j \in 1..Len(Blocks[b].Preds) :
              LET e == Blocks[b].Preds[j]
              IN  /\ e.i + 1 \in 1..Len(Blocks[e.b].Succs)
                  /\ Blocks[e.b].Succs[e.i + 1] = Edge(b, j - 1)

\* argument i of the phi v is the argument that the function handed to the
\* pass had for the predecessor block that is now predecessor i
ArgOfPred(v, i) ==
    LET blk == Values[v].Block
        p == Blocks[blk].Preds[i].b
    IN  \E k \in 1..Len(orig.Blocks[blk].Preds) :
            /\ orig.Blocks[blk].Preds[k].b = p
            /\ orig.Values[v].Args[k] = Values[v].Args[i]

\* C15: when replaceConst has returned, whatever the order of its range,
\* every value that is still a phi has as many arguments as its block has
\* predecessors, argument i being the one of predecessor i, and the
\* successor lists agree with the predecessor lists.
C15_PhisMatchPreds ==
    pc = "done" =>
        /\ \A v \in DOMAIN Values :
              IsPhi(v) =>
                  /\ Len(Values[v].Args) = Len(Blocks[Values[v].Block].Preds)
                  /\ \A i \in 1..Len(Values[v].Args) : ArgOfPred(v, i)
        /\ EdgesConsistent

\* a phi has lost an argument with an edge into its block
C15_Witness ==
    /\ pc = "done"
    /\ \E v \in OrigValues :
          /\ IsPhi(v)
          /\ Len(Values[v].Args) < Len(orig.Values[v].Args)
          /\ Len(Values[v].Args) > 1

\* ---- C16
\* this step is an iteration of the solver loop that takes a value
ValueTaken == pc = "solve" /\ pc' # "replace" /\ taken' = "value"

\* C16: an iteration of the loop takes a value from the value worklist only
\* when the edge worklist is empty; so the edges that the evaluation of a
\* value has enqueued are all taken before the next value is.
C16_EdgesBeforeValues == [][ValueTaken => Len(edges) = 0]_vars

\* the evaluation of a value has enqueued an edge while values are waiting
C16_Witness ==
    /\ pc = "solve"
    /\ taken = "value"
    /\ Len(edges) > 0
    /\ Len(uses) > 0

\* ---- C17
IfBlocks == {b \in DOMAIN Blocks : Blocks[b].Kind = "BlockIf"}

Ctl(b) == Blocks[b].Controls[1]

SuccEdge(b, i) == <<b, Blocks[b].Succs[i + 1].b>>

\* the successor edges of the If block b that are live under the cell c of
\* its control, in the order of the successors
LiveOut(b, c, vals) ==
    IF c.tag = bottom THEN <<SuccEdge(b, 0), SuccEdge(b, 1)>>
    ELSE IF c.tag = constant THEN <<SuccEdge(b, 1 - vals[c.val].AuxInt)>>
    ELSE <<>>

\* what a call of propagate on b appends to the edge worklist in this state
Enqueued(b) ==
    LET after == propagate(Solver(edges, uses), b).edges
    IN  SubSeq(after, Len(edges) + 1, Len(after))

InQueue(q, e) == \E i \in 1..Len(q) : q[i] = e

\* b has been visited and propagated, and nothing was enqueued for it
Waiting(b) ==
    /\ b \in VisitedBlocks
    /\ Cell(Ctl(b)).tag = top
    /\ \A e \in visited \ {<<Entry, Entry>>} : e[1] # b

\* C17: propagate on an If block enqueues both successor edges when the
\* control's cell is Bottom, only the edge to successor 1 - AuxInt when it is
\* Const and nothing when it is Top; and the iteration in which the control
\* of a visited If block leaves Top enqueues the successor edges that are
\* live under the new cell.
C17_IfPropagation ==
    /\ [](pc = "solve" =>
            \A b \in IfBlocks :
                /\ Enqueued(b) = LiveOut(b, Cell(Ctl(b)), Values)
                /\ InQueue(Enqueued(b), SuccEdge(b, 0)) =>
                      (Cell(Ctl(b)).tag = bottom \/ Values[Cell(Ctl(b)).val].AuxInt = 1)
                /\ InQueue(Enqueued(b), SuccEdge(b, 1)) =>
                      (Cell(Ctl(b)).tag = bottom \/ Values[Cell(Ctl(b)).val].AuxInt = 0))
    /\ [][\A b \in IfBlocks :
             (pc = "solve" /\ Waiting(b) /\ latticeCells'[Ctl(b)].tag # top)
             => LET live == LiveOut(b, latticeCells'[Ctl(b)], Values')
                IN  /\ Len(live) > 0
                    /\ \A i \in 1..Len(live) : InQueue(edges', live[i])]_vars

\* an If block was visited while its control was Top, and the evaluation of
\* the control has now enqueued its live successor
C17_Witness ==
    /\ pc = "solve"
    /\ taken = "value"
    /\ \E b \in IfBlocks :
          /\ b \in VisitedBlocks
          /\ Cell(Ctl(b)).tag = constant
          /\ \A e \in visited \ {<<Entry, Entry>>} : e[1] # b
          /\ InQueue(edges, SuccEdge(b, 1 - Values[Cell(Ctl(b)).val].AuxInt))

\* ---- C18
IsPrefix(p, q) == Len(p) <= Len(q) /\ SubSeq(q, 1, Len(p)) = p

Added == DOMAIN Values \ OrigValues

\* C18: as long as the solver runs, every value of the function handed to
\* the pass keeps its opcode, AuxInt and arguments, every block its kind,
\* controls, successors and predecessors, and the def-use indexes are the
\* ones buildDefUses made; the values that have been added are attached to
\* the entry block, and no value of the function and no block's control
\* refers to one of them.
C18_PropagationFrame ==
    pc = "solve" =>
        /\ \A v \in OrigValues : SameValue(Values[v], orig.Values[v])
        /\ \A b \in DOMAIN orig.Blocks : SameBlock(Blocks[b], orig.Blocks[b])
        /\ DOMAIN Blocks = DOMAIN orig.Blocks
        /\ defUse = GroupPairs(ArgPairs(orig.Values, orig.Blocks))
        /\ defBlock = GroupPairs(CtlPairs(orig.Blocks))
        /\ \A v \in OrigValues : \A i \in 1..Len(Values[v].Args) : Values[v].Args[i] \notin Added
        /\ \A b \in DOMAIN Blocks :
              /\ \A i \in 1..Len(Blocks[b].Controls) : Blocks[b].Controls[i] \notin Added
              /\ IsPrefix(orig.Blocks[b].Values, Blocks[b].Values)
              /\ b # Entry => Blocks[b].Values = orig.Blocks[b].Values
        /\ \A v \in Added : Values[v].Block = Entry

C18_Witness ==
    /\ pc = "solve"
    /\ Cardinality(Added) > 1
    /\ \E h \in hist : h.probe /\ h.new.tag = constant /\ h.new.val \in Added

\* ---- C19
\* the uses of v as an argument and as a block control in the function
\* handed to the pass
UsesFound(v) ==
    Len(Lookup(GroupPairs(ArgPairs(orig.Values, orig.Blocks)), v))
    + Len(Lookup(GroupPairs(CtlPairs(orig.Blocks)), v))

StaleUses == \E v \in DOMAIN orig.Values : orig.Values[v].Uses # UsesFound(v)

\* C19: when the use count of some value of the function differs from the
\* number of its uses as argument and as control, buildDefUses ends in the
\* fatal error, and no edge and no value has been processed.
C19_StaleUsesFatal ==
    (StaleUses /\ pc # "start") =>
        /\ pc = "fatal"
        /\ visited = {}
        /\ latticeCells = <<>>

\* ---- C20
AllOut(b) == {SuccEdge(b, i) : i \in 0..(Len(Blocks[b].Succs) - 1)}

\* the outgoing edges of b that are live under the cells
LiveEdges(b) ==
    LET kind == Blocks[b].Kind
        c == Cell(Ctl(b))
    IN  IF kind \in {"BlockPlain", "BlockFirst"} THEN {SuccEdge(b, 0)}
        ELSE IF kind = "BlockDefer" THEN AllOut(b)
        ELSE IF kind \in {"BlockIf", "BlockJumpTable"}
             THEN IF c.tag = bottom THEN AllOut(b)
                  ELSE IF c.tag = top THEN {}
                  ELSE IF kind = "BlockIf" THEN {SuccEdge(b, 1 - Values[c.val].AuxInt)}
                  ELSE {SuccEdge(b, Values[c.val].AuxInt)}
        ELSE {}

\* C20: when both worklists are empty and the solver loop is left, every
\* edge that leaves a block with a visited incoming edge and is live under
\* the cells is visited.
C20_ReachabilityComplete ==
    SolverDone => \A b \in VisitedBlocks : LiveEdges(b) \subseteq visited

\* the solver has ended on a function with an If whose control ended Bottom
\* after having been Const, and on one whose control was Top when the block
\* was visited
C20_Witness ==
    /\ SolverDone
    /\ \E b \in IfBlocks \cap VisitedBlocks :
          /\ \E h \in hist : h.val = Ctl(b) /\ h.old.tag = constant /\ h.new.tag = bottom
          /\ AllOut(b) \subseteq visited

\* ---- C21
\* the edges of the function handed to the pass, as the solver names them
OrigEdges ==
    {e \in (DOMAIN orig.Blocks) \X (DOMAIN orig.Blocks) :
        \E i \in 1..Len(orig.Blocks[e[1]].Succs) : orig.Blocks[e[1]].Succs[i].b = e[2]}

\* no function of the catalog has two edges between the same two blocks
HasEdge(e) == \E i \in 1..Len(Blocks[e[1]].Succs) : Blocks[e[1]].Succs[i].b = e[2]

RemovedEdges == {e \in OrigEdges : ~HasEdge(e)}

\* C21: an edge that replaceConst has removed is not in the visited set the
\* solver ended with.
C21_RemovedNotVisited ==
    pc \in {"replace", "done"} => \A e \in RemovedEdges : e \notin visited

\* ---- C22
\* Concrete execution of a function f = [Values, Blocks] on given values of
\* its arguments: the blocks are executed one after the other from the
\* entry block; a phi takes the value its argument for the edge just taken
\* has, the other values of the block are computed from their arguments, a
\* division by zero panics and ends the execution.
MaxSteps == 6

Arith(op, x, y) ==
    IF op = "OpAdd8" THEN Wrap8(x + y)
    ELSE IF op = "OpDiv8" THEN Wrap8(TruncDiv(x, y))
    ELSE IF op = "OpMod8" THEN TruncMod(x, y)
    ELSE IF op = "OpEq8" THEN BoolAux(x = y)
    ELSE BoolAux(x < y)

\* the value of v in block blk as a set: empty when it is not computed
RECURSIVE Val(_, _, _, _)
Val(f, env, v, blk) ==
    LET x == f.Values[v]
    IN  IF x.Block # blk \/ x.Op \in {"OpPhi", "OpArg"}
        THEN IF v \in DOMAIN env THEN {env[v]} ELSE {}
        ELSE IF x.Op \in {"OpConst8", "OpConstBool"} THEN {x.AuxInt}
        ELSE IF x.Op = "OpCopy" THEN Val(f, env, x.Args[1], blk)
        ELSE LET a == Val(f, env, x.Args[1], blk)
                 b == Val(f, env, x.Args[2], blk)
             IN  IF a = {} \/ b = {} \/ (x.Op \in {"OpDiv8", "OpMod8"} /\ b = {0}) THEN {}
                 ELSE {Arith(x.Op, n, m) : n \in a, m \in b}

The(S) == CHOOSE n \in S : TRUE

\* the values known after block blk has been entered by its predecessor
\* slot j (0-based) and its values have been computed
StepEnv(f, env, blk, j) ==
    LET here == Range(f.Blocks[blk].Values)
        phis == {v \in here : f.Values[v].Op = "OpPhi"}
        in(v) == f.Values[v].Args[j + 1]
        kept == (DOMAIN env \ here) \cup {v \in here : f.Values[v].Op = "OpArg" /\ v \in DOMAIN env}
        gotPhis == {v \in phis : in(v) \in DOMAIN env}
        envP == [v \in kept \cup gotPhis |-> IF v \in gotPhis THEN env[in(v)] ELSE env[v]]
        computed == {v \in here \ phis : f.Values[v].Op # "OpArg" /\ Val(f, envP, v, blk) # {}}
    IN  [v \in DOMAIN envP \cup computed |->
            IF v \in computed THEN The(Val(f, envP, v, blk)) ELSE envP[v]]

\* a division of the block has a zero divisor
Panics(f, env, blk) ==
    \E v \in Range(f.Blocks[blk].Values) :
        /\ f.Values[v].Op \in {"OpDiv8", "OpMod8"}
        /\ Val(f, env, f.Values[v].Args[2], blk) = {0}

\* the successor slots (0-based) that the execution may leave blk by
Leaves(f, env, blk) ==
    LET b == f.Blocks[blk]
        c == IF Len(b.Controls) > 0 /\ b.Controls[1] \in DOMAIN env
             THEN {env[b.Controls[1]]} ELSE {}
    IN  IF b.Kind \in {"BlockPlain", "BlockFirst"} THEN {0}
        ELSE IF b.Kind = "BlockDefer" THEN 0..(Len(b.Succs) - 1)
        ELSE IF b.Kind = "BlockIf" THEN {1 - n : n \in c}
        ELSE IF b.Kind = "BlockJumpTable" THEN c \cap (0..(Len(b.Succs) - 1))
        ELSE {}

\* the edges taken and the (value, result) pairs computed by the executions
\* of at most n blocks that enter blk by predecessor slot j
RECURSIVE Run(_, _, _, _, _)
Run(f, env, blk, j, n) ==
    IF n = 0 THEN [edges |-> {}, vals |-> {}]
    ELSE LET e2 == StepEnv(f, env, blk, j)
             out == IF Panics(f, e2, blk) THEN {} ELSE Leaves(f, e2, blk)
             rest == {Run(f, e2, f.Blocks[blk].Succs[i + 1].b, f.Blocks[blk].Succs[i + 1].i, n - 1) :
                        i \in out}
         IN  [edges |-> {<<blk, f.Blocks[blk].Succs[i + 1].b>> : i \in out}
                        \cup UNION {r.edges : r \in rest},
              vals |-> {<<v, e2[v]>> : v \in Range(f.Blocks[blk].Values) \cap DOMAIN e2}
                       \cup UNION {r.vals : r \in rest}]

\* the values the arguments of the function may have: a truth value for the
\* control of an If, a small integer otherwise
Inputs ==
    LET args == {v \in OrigValues : orig.Values[v].Op = "OpArg"}
        ctls == {orig.Blocks[b].Controls[1] :
                    b \in {c \in DOMAIN orig.Blocks : orig.Blocks[c].Kind = "BlockIf"}}
        bools == ctls \cup {orig.Values[v].Args[1] : v \in {c \in ctls : orig.Values[c].Op = "OpCopy"}}
    IN  {in \in [args -> 0..2] : \A v \in bools \cap args : in[v] \in {0, 1}}

OrigRun(in) == Run(orig, in, Entry, 0, MaxSteps)

NewRun(in) == Run([Values |-> Values, Blocks |-> Blocks], in, Entry, 0, MaxSteps)

\* C22: when the pass has returned, for all values of the arguments, every
\* value of the function that an execution of the original function
\* computes and whose cell is Const(k) is computed as k's literal, no
\* execution of the original function takes an edge that replaceConst has
\* removed, and the rewritten function takes the same edges and computes the
\* same results for the values of the original function.
C22_Sound ==
    pc = "done" =>
        \A in \in Inputs :
            LET o == OrigRun(in)
                n == NewRun(in)
            IN  /\ \A p \in o.vals :
                      Cell(p[1]).tag = constant => p[2] = Values[Cell(p[1]).val].AuxInt
                /\ o.edges \cap RemovedEdges = {}
                /\ n.edges = o.edges
                /\ {p \in n.vals : p[1] \in OrigValues} = o.vals

\* an execution of the original function computes a value that the pass has
\* folded and leaves an If that the pass has rewired
C22_Witness ==
    /\ pc = "done"
    /\ RemovedEdges # {}
    /\ \E in \in Inputs :
          \E p \in OrigRun(in).vals :
              /\ Cell(p[1]).tag = constant
              /\ orig.Values[p[1]].Op \in SupportedBinary \cup {"OpPhi"}
              /\ Cardinality(OrigRun(in).edges) > 1

====
